---- MODULE Spec2Model ----
(***************************************************************************)
(* Converse Hub (src/app/page.tsx): the HomePage component, its message    *)
(* store (the 'messages' table reached through the supabase client) and    *)
(* the realtime channel between them.                                      *)
(*                                                                         *)
(* Every `await` of the component is a suspension point: a handler is      *)
(* modelled as the steps between its suspension points.  A store call is   *)
(* evaluated by the store at the moment the step that resumes after it is  *)
(* taken, except for fetchMessages, whose read of the table and whose      *)
(* resolution are separate steps (so that fetches can resolve out of       *)
(* order).  Each store call either succeeds or returns an error.           *)
(***************************************************************************)
EXTENDS Integers, Sequences, FiniteSets, Bags, TLC

VARIABLES
    store,            \* the rows of the 'messages' table
    nextId,           \* the table's id sequence (next id the store assigns)
    chan,             \* the channel of the effect: "init" (not created),
                      \* "joining", "subscribed" or "removed"
    notifs,           \* change events sent on the channel, not yet delivered
    messages,         \* useState: the snapshot, in the order of the fetch
    input,            \* useState: the text of the input box
    selectedMessage,  \* useState: the message picked by Edit / Branch Reply
    errorMessage,     \* useState: the error banner
    fetches,          \* the fetchMessages calls in flight (a bag)
    send,             \* the last sendMessage call that reached its insert
    pickedBy,         \* history: the button that set selectedMessage
    del,              \* the deleteMessage calls (their call stacks)
    returned,         \* TRUE right after a sendMessage call that returned early
    hist,             \* history: every row the table has ever held
    branchesVisible   \* useState: the visibility map (id -> boolean)

vars == <<store, nextId, chan, notifs, messages, input, selectedMessage,
          errorMessage, fetches, send, pickedBy, del, returned, hist,
          branchesVisible>>

(***************************************************************************)
(* Bounds of the model.                                                    *)
(***************************************************************************)
MaxId == 4        \* the store assigns ids up to MaxId
MaxNotif == 1     \* change events in flight on the channel
MaxFetch == 2     \* fetchMessages calls in flight
MaxDel == 2       \* deleteMessage calls made

DelSlots == 1..MaxDel

(***************************************************************************)
(* Text: a string is a sequence of characters; " " is white space.         *)
(***************************************************************************)
Texts == {<<>>, <<" ">>, <<"a">>}

IsSpace(c) == c = " "

RECURSIVE TrimStart(_)
TrimStart(s) ==
    IF s = <<>> THEN <<>>
    ELSE IF IsSpace(Head(s)) THEN TrimStart(Tail(s)) ELSE s

RECURSIVE TrimEnd(_)
TrimEnd(s) ==
    IF s = <<>> THEN <<>>
    ELSE IF IsSpace(s[Len(s)]) THEN TrimEnd(SubSeq(s, 1, Len(s) - 1)) ELSE s

\* String.prototype.trim
Trim(s) == TrimEnd(TrimStart(s))

(***************************************************************************)
(* Messages.  null stands for SQL NULL / JS null in parent_id; a Message   *)
(* variable that is null holds nullMessage.                                *)
(***************************************************************************)
null == 0

Message(i, c, p, v, t) ==
    [id |-> i, content |-> c, parent_id |-> p, version |-> v, created_at |-> t]

nullMessage == Message(0, <<>>, null, 0, 0)

noError == "null"
fetchError == "Error fetching messages. Please try again."
sendError == "Error sending message. Please try again."
deleteError == "Error deleting message. Please try again."

(***************************************************************************)
(* The visibility map: a Record<number, boolean>, here a function from the *)
(* ids that have an entry to BOOLEAN.  Reading an id without an entry      *)
(* gives undefined, which is falsy.                                        *)
(***************************************************************************)
noBranches == [i \in {} |-> FALSE]

\* prev[messageId] in a condition: true when the entry is there and is true
Truthy(prev, messageId) == messageId \in DOMAIN prev /\ prev[messageId]

(***************************************************************************)
(* The store.                                                              *)
(***************************************************************************)
Ids(rows) == {r.id : r \in rows}

\* select('*').order('parent_id', desc).order('version', desc)
\*            .order('created_at', desc): a descending order puts NULL first
ParentKey(r) == IF r.parent_id = null THEN MaxId + 1 ELSE r.parent_id

Before(a, b) ==
    \/ ParentKey(a) > ParentKey(b)
    \/ /\ ParentKey(a) = ParentKey(b)
       /\ \/ a.version > b.version
          \/ a.version = b.version /\ a.created_at > b.created_at

RECURSIVE Ordered(_)
Ordered(rows) ==
    IF rows = {} THEN <<>>
    ELSE LET first == CHOOSE r \in rows : \A o \in rows \ {r} : Before(r, o)
         IN  <<first>> \o Ordered(rows \ {first})

\* the result of the select of fetchMessages on the table `rows`
SelectAll(rows) == Ordered(rows)

SelectFirstChild(rows, messageId) ==
    LET ids == {r.id : r \in {x \in rows : x.parent_id = messageId}}
    IN  {i \in ids : \A j \in ids : i <= j}

SelectNoChildren(rows, messageId) == {}

\* select('id').eq('parent_id', messageId)
SelectChildren(rows, messageId) == {r.id : r \in {x \in rows : x.parent_id = messageId}}

InsertRowReusingId(rows, id, rec) ==
    LET free == CHOOSE i \in 1..id : i \notin Ids(rows) /\ \A j \in 1..(i - 1) : j \in Ids(rows)
    IN  rows \cup {Message(free, rec.content, rec.parent_id, rec.version, id)}

\* insert({content, parent_id, version}): the store assigns id and created_at
InsertRow(rows, id, rec) ==
    rows \cup {Message(id, rec.content, rec.parent_id, rec.version, id)}

DeleteLineage(rows, messageId) ==
    {r \in rows : \A x \in rows : x.id = messageId => r.parent_id # x.parent_id}

\* delete().eq('id', messageId)
DeleteRow(rows, messageId) == {r \in rows : r.id # messageId}

\* a change of the table is sent on the channel while it is subscribed
Notify(changed) == IF changed /\ chan = "subscribed" THEN notifs + 1 ELSE notifs

CanNotify == chan = "subscribed" => notifs < MaxNotif

(***************************************************************************)
(* The tables the component may find when it is mounted: rows 1..3, each   *)
(* hung under null or under an earlier row, versions numbered per lineage. *)
(***************************************************************************)
InitParents == {<<null, 1, 1>>, <<null, 1, 2>>}

InitVersion(ps, i) == 1 + Cardinality({j \in 1..(i - 1) : ps[j] = ps[i]})

InitStore(ps) == {Message(i, <<"a">>, ps[i], InitVersion(ps, i), i) : i \in 1..Len(ps)}

\* A sendMessage call: st is "none" (no call yet), "sent" (the insert is in
\* flight), "ok" or "failed" (the call has returned); rec is the record it
\* hands to insert, parentMessage its argument.  History: text is the input
\* when the call was made, how the button that had picked parentMessage
\* ("none" when parentMessage is null).
noSend == [st |-> "none", rec |-> [content |-> <<>>, parent_id |-> null, version |-> 0],
           parentMessage |-> nullMessage, text |-> <<>>, how |-> "none"]

\* A deleteMessage call: st is "none" (not made yet), "running", "done"
\* (returned after the cascade and the refresh) or "failed" (returned from
\* its catch); root is its messageId; stack holds its deleteMessageRecursive
\* frames.  History of a running call: sub holds the ids of the descendants
\* of root in the table when the call was made, quiet tells that nothing
\* but this call has changed the table since.
noCall == [st |-> "none", root |-> null, stack |-> <<>>, sub |-> {}, quiet |-> TRUE]

Running(d) == del[d].st = "running"

Returned(call, how) == [noCall EXCEPT !.st = how, !.root = call.root]

\* the calls after a change of the table that is not a step of call `own`
\* (own = 0: a change by sendMessage)
Disturbed(calls, own) ==
    [d \in DelSlots |-> IF calls[d].st = "running" /\ d # own
                        THEN [calls[d] EXCEPT !.quiet = FALSE]
                        ELSE calls[d]]

Init ==
    /\ \E ps \in InitParents : store = InitStore(ps) /\ nextId = Len(ps) + 1
    /\ hist = store
    /\ chan = "init"
    /\ notifs = 0
    /\ messages = <<>>
    /\ input = <<>>
    /\ selectedMessage = nullMessage
    /\ errorMessage = noError
    /\ fetches = EmptyBag
    /\ send = noSend
    /\ pickedBy = "none"
    /\ del = [d \in DelSlots |-> noCall]
    /\ returned = FALSE
    /\ branchesVisible = noBranches

(***************************************************************************)
(* fetchMessages (lines 52-68)                                             *)
(***************************************************************************)
\* a call whose select is sent, and a call whose select the store has answered
Sent == [st |-> "sent", data |-> <<>>]

Loaded(data) == [st |-> "data", data |-> data]

InFlight == BagToSet(fetches)

One(f) == SetToBag({f})

CanFetch == BagCardinality(fetches) < MaxFetch

\* the call up to its await: the select is sent
StartFetch(fs) == fs (+) One(Sent)

\* the store evaluates the select
FetchRead(f) ==
    /\ f.st = "sent"
    /\ fetches' = (fetches (-) One(f)) (+) One(Loaded(SelectAll(store)))
    /\ returned' = FALSE
    /\ UNCHANGED <<store, nextId, chan, notifs, messages, input, selectedMessage,
                   errorMessage, send, pickedBy, del, hist,
                   branchesVisible>>

FetchOkMerges(f) ==
    /\ f.st = "data"
    /\ messages' = messages \o SelectSeq(f.data, LAMBDA r : \A i \in 1..Len(messages) : messages[i] # r)
    /\ fetches' = fetches (-) One(f)
    /\ returned' = FALSE
    /\ UNCHANGED <<store, nextId, chan, notifs, input, selectedMessage,
                   errorMessage, send, pickedBy, del, hist,
                   branchesVisible>>

\* the await resolves without error: setMessages(data || [])
FetchOk(f) ==
    /\ f.st = "data"
    /\ messages' = f.data
    /\ fetches' = fetches (-) One(f)
    /\ returned' = FALSE
    /\ UNCHANGED <<store, nextId, chan, notifs, input, selectedMessage,
                   errorMessage, send, pickedBy, del, hist,
                   branchesVisible>>

FetchFailClears(f) ==
    /\ f.st = "sent"
    /\ errorMessage' = fetchError
    /\ messages' = <<>>
    /\ fetches' = fetches (-) One(f)
    /\ returned' = FALSE
    /\ UNCHANGED <<store, nextId, chan, notifs, input, selectedMessage,
                   send, pickedBy, del, hist,
                   branchesVisible>>

\* the await resolves with an error: it is thrown and caught
FetchFail(f) ==
    /\ f.st = "sent"
    /\ errorMessage' = fetchError
    /\ fetches' = fetches (-) One(f)
    /\ returned' = FALSE
    /\ UNCHANGED <<store, nextId, chan, notifs, messages, input, selectedMessage,
                   send, pickedBy, del, hist,
                   branchesVisible>>

(***************************************************************************)
(* useEffect (lines 31-50)                                                 *)
(***************************************************************************)
\* the component is on screen from the effect to its cleanup
Mounted == chan \in {"joining", "subscribed"}

\* the effect: fetchMessages(), then the channel is created and subscribe()
\* sends its join
Mount ==
    /\ chan = "init"
    /\ CanFetch
    /\ chan' = "joining"
    /\ fetches' = StartFetch(fetches)
    /\ returned' = FALSE
    /\ UNCHANGED <<store, nextId, notifs, messages, input, selectedMessage,
                   errorMessage, send, pickedBy, del, hist,
                   branchesVisible>>

\* the effect with its join accepted at once: no change of the table is
\* missed between the first fetch and the subscription
MountSubscribed ==
    /\ chan = "init"
    /\ CanFetch
    /\ chan' = "subscribed"
    /\ fetches' = StartFetch(fetches)
    /\ returned' = FALSE
    /\ UNCHANGED <<store, nextId, notifs, messages, input, selectedMessage,
                   errorMessage, send, pickedBy, del, hist,
                   branchesVisible>>

\* the server accepts the join: changes of the table are sent from now on
Subscribed ==
    /\ chan = "joining"
    /\ chan' = "subscribed"
    /\ returned' = FALSE
    /\ UNCHANGED <<store, nextId, notifs, messages, input, selectedMessage,
                   errorMessage, fetches, send, pickedBy, del, hist,
                   branchesVisible>>

\* the 'postgres_changes' callback: fetchMessages()
OnChange ==
    /\ chan = "subscribed"
    /\ notifs > 0
    /\ CanFetch
    /\ notifs' = notifs - 1
    /\ fetches' = StartFetch(fetches)
    /\ returned' = FALSE
    /\ UNCHANGED <<store, nextId, chan, messages, input, selectedMessage,
                   errorMessage, send, pickedBy, del, hist,
                   branchesVisible>>

\* the cleanup: supabase.removeChannel(channel)
Unmount ==
    /\ Mounted
    /\ chan' = "removed"
    /\ notifs' = 0
    /\ returned' = FALSE
    /\ UNCHANGED <<store, nextId, messages, input, selectedMessage,
                   errorMessage, fetches, send, pickedBy, del, hist,
                   branchesVisible>>

(***************************************************************************)
(* renderMessages (lines 165-252): the messages that can be on screen, and *)
(* so carry Edit / Branch Reply / Delete buttons, are those reached from   *)
(* parent_id = null through messages of the snapshot.  OnScreen holds them *)
(* for whatever branches the user has expanded (the specifications that    *)
(* leave the toggling out use it); Shown holds those on screen under the   *)
(* visibility map as it is.                                                *)
(***************************************************************************)
Range(seq) == {seq[i] : i \in 1..Len(seq)}

RECURSIVE Rendered(_, _)
Rendered(rows, parentId) ==
    LET filteredMessages == {m \in rows : m.parent_id = parentId}
    IN  filteredMessages \cup
        UNION {Rendered(rows \ filteredMessages, m.id) : m \in filteredMessages}

OnScreen == Rendered(Range(messages), null)

\* messages.filter(message => message.parent_id === parentId): a new array
Filter(msgs, parentId) ==
    SelectSeq(msgs, LAMBDA message : message.parent_id = parentId)

InsertAscending(sorted, message) ==
    LET before == SelectSeq(sorted, LAMBDA b : b.version <= message.version)
        after == SelectSeq(sorted, LAMBDA b : b.version > message.version)
    IN  before \o <<message>> \o after

\* one step of the sort: message goes behind the elements placed so far
\* whose version is not smaller (the sort is stable)
InsertByVersion(sorted, message) ==
    LET before == SelectSeq(sorted, LAMBDA b : b.version >= message.version)
        after == SelectSeq(sorted, LAMBDA b : b.version < message.version)
    IN  before \o <<message>> \o after

\* filteredMessages.sort((a, b) => b.version - a.version)
RECURSIVE SortByVersion(_)
SortByVersion(seq) ==
    IF seq = <<>> THEN <<>>
    ELSE InsertByVersion(SortByVersion(SubSeq(seq, 1, Len(seq) - 1)), seq[Len(seq)])

\* the sorted messages of one renderMessages(parentId) call
SortedMessages(msgs, parentId) == SortByVersion(Filter(msgs, parentId))

ShowsAllBranches(visible, messageId) == TRUE

\* line 245: branchesVisible[message.id] && ...
ShowsBranches(visible, messageId) == Truthy(visible, messageId)

\* renderMessages(parentId, level) on the snapshot msgs and the visibility
\* map visible: the elements it emits, top to bottom, each with the level it
\* is drawn at
RECURSIVE RenderFrom(_, _, _, _)
RenderFrom(msgs, visible, parentId, level) ==
    LET sortedMessages == SortedMessages(msgs, parentId)
        Element(k) ==
            <<[message |-> sortedMessages[k], level |-> level]>> \o
            (IF ShowsBranches(visible, sortedMessages[k].id)
             THEN RenderFrom(msgs, visible, sortedMessages[k].id, level + 1)
             ELSE <<>>)
        Concat[k \in 0..Len(sortedMessages)] ==
            IF k = 0 THEN <<>> ELSE Concat[k - 1] \o Element(k)
    IN  Concat[Len(sortedMessages)]

\* renderMessages() of line 267
RenderMessages(msgs, visible) == RenderFrom(msgs, visible, null, 0)

\* the messages on screen with the visibility map as it is
Shown == {e.message : e \in Range(RenderMessages(messages, branchesVisible))}

ToggledOnly(prev, messageId) ==
    [i \in DOMAIN prev \cup {messageId} |-> IF i = messageId THEN TRUE ELSE prev[i]]

\* the updater of toggleBranchesVisibility (lines 135-138)
Toggled(prev, messageId) ==
    [i \in DOMAIN prev \cup {messageId} |->
        IF i = messageId THEN ~Truthy(prev, messageId) ELSE prev[i]]

\* the View Branches / Hide Branches button of a message on screen
\* (line 211): toggleBranchesVisibility(message.id)
ToggleBranchesVisibility(m) ==
    /\ Mounted
    /\ m \in Shown
    /\ branchesVisible' = Toggled(branchesVisible, m.id)
    /\ returned' = FALSE
    /\ UNCHANGED <<store, nextId, chan, notifs, messages, input, selectedMessage,
                   errorMessage, fetches, send, pickedBy, del, hist>>

(***************************************************************************)
(* The input box and the buttons                                           *)
(***************************************************************************)
\* onChange (line 276): setInput(e.target.value)
SetInput(t) ==
    /\ Mounted
    /\ t # input
    /\ input' = t
    /\ returned' = FALSE
    /\ UNCHANGED <<store, nextId, chan, notifs, messages, selectedMessage,
                   errorMessage, fetches, send, pickedBy, del, hist,
                   branchesVisible>>

\* the Edit button (lines 199-205)
ClickEdit(m) ==
    /\ Mounted
    /\ m \in OnScreen
    /\ selectedMessage' = m
    /\ input' = m.content
    /\ pickedBy' = "edit"
    /\ returned' = FALSE
    /\ UNCHANGED <<store, nextId, chan, notifs, messages, errorMessage,
                   fetches, send, del, hist,
                   branchesVisible>>

\* the Branch Reply button (lines 225-231)
ClickBranchReply(m) ==
    /\ Mounted
    /\ m \in OnScreen
    /\ selectedMessage' = m
    /\ input' = <<>>
    /\ pickedBy' = "branch"
    /\ returned' = FALSE
    /\ UNCHANGED <<store, nextId, chan, notifs, messages, errorMessage,
                   fetches, send, del, hist,
                   branchesVisible>>

\* handleCancel (lines 141-144); the Cancel button exists while a message
\* is selected
HandleCancel ==
    /\ Mounted
    /\ selectedMessage # nullMessage
    /\ input' = <<>>
    /\ selectedMessage' = nullMessage
    /\ pickedBy' = "none"
    /\ returned' = FALSE
    /\ UNCHANGED <<store, nextId, chan, notifs, messages, errorMessage,
                   fetches, send, del, hist,
                   branchesVisible>>

(***************************************************************************)
(* sendMessage (lines 70-88), called with selectedMessage by the Send      *)
(* button and by Enter.  One call is in flight at a time.                  *)
(***************************************************************************)
InsertRecordSameVersion(parentMessage, text) ==
    [content   |-> text,
     parent_id |-> IF parentMessage # nullMessage THEN parentMessage.parent_id ELSE null,
     version   |-> IF parentMessage # nullMessage THEN parentMessage.version ELSE 1]

InsertRecordUnderParent(parentMessage, text) ==
    [content   |-> text,
     parent_id |-> IF parentMessage # nullMessage THEN parentMessage.id ELSE null,
     version   |-> IF parentMessage # nullMessage THEN parentMessage.version + 1 ELSE 1]

\* the record handed to insert (lines 74-78)
InsertRecord(parentMessage, text) ==
    [content   |-> text,
     parent_id |-> IF parentMessage # nullMessage THEN parentMessage.parent_id ELSE null,
     version   |-> IF parentMessage # nullMessage THEN parentMessage.version + 1 ELSE 1]

\* the call has returned
Done(call, how) == [noSend EXCEPT !.st = how, !.how = call.how]

IsEmpty(text) == text = <<>>

\* line 71
IsBlank(text) == Trim(text) = <<>>

\* the call up to its await: the early return, or the insert is sent
SendMessage ==
    /\ Mounted
    /\ send.st # "sent"
    /\ IF IsBlank(input)
       THEN /\ returned' = TRUE
            /\ UNCHANGED send
       ELSE /\ returned' = FALSE
            /\ send' = [st |-> "sent", rec |-> InsertRecord(selectedMessage, input),
                        parentMessage |-> selectedMessage, text |-> input,
                        how |-> pickedBy]
    /\ UNCHANGED <<store, nextId, chan, notifs, messages, input, selectedMessage,
                   errorMessage, fetches, pickedBy, del, hist,
                   branchesVisible>>

\* the insert succeeds: setInput(''), setSelectedMessage(null)
SendOk ==
    /\ send.st = "sent"
    /\ nextId <= MaxId
    /\ CanNotify
    /\ store' = InsertRow(store, nextId, send.rec)
    /\ hist' = hist \cup store'
    /\ nextId' = nextId + 1
    /\ notifs' = Notify(TRUE)
    /\ input' = <<>>
    /\ selectedMessage' = nullMessage
    /\ pickedBy' = "none"
    /\ send' = Done(send, "ok")
    /\ del' = Disturbed(del, 0)
    /\ returned' = FALSE
    /\ UNCHANGED <<chan, messages, errorMessage, fetches,
                   branchesVisible>>

SendFailClears ==
    /\ send.st = "sent"
    /\ errorMessage' = sendError
    /\ input' = <<>>
    /\ selectedMessage' = nullMessage
    /\ pickedBy' = "none"
    /\ send' = Done(send, "failed")
    /\ returned' = FALSE
    /\ UNCHANGED <<store, nextId, chan, notifs, messages, fetches, del, hist,
                   branchesVisible>>

\* the insert fails: the error is thrown and caught
SendFail ==
    /\ send.st = "sent"
    /\ errorMessage' = sendError
    /\ send' = Done(send, "failed")
    /\ returned' = FALSE
    /\ UNCHANGED <<store, nextId, chan, notifs, messages, input, selectedMessage,
                   fetches, pickedBy, del, hist,
                   branchesVisible>>

(***************************************************************************)
(* deleteMessage (lines 90-104) and deleteMessageRecursive (lines 106-126) *)
(*                                                                         *)
(* A frame is one activation of deleteMessageRecursive: id is messageId,   *)
(* sel tells whether its select has resolved, todo holds the children the  *)
(* for loop has not reached yet.  The select gives no order, so the loop   *)
(* may take the children in any order.  The top frame either waits for its *)
(* select (sel = FALSE) or for its delete (sel = TRUE, todo = {}).         *)
(***************************************************************************)
Frame(i) == [id |-> i, sel |-> FALSE, todo |-> {}]

Top(stack) == stack[Len(stack)]

Pop(stack) == SubSeq(stack, 1, Len(stack) - 1)

SetTop(stack, frame) == [stack EXCEPT ![Len(stack)] = frame]

FreeDel == {d \in DelSlots : del[d] = noCall}

\* the ids of the rows of `rows` whose parent_id chain reaches messageId
RECURSIVE Descendants(_, _)
Descendants(rows, messageId) ==
    LET children == {r \in rows : r.parent_id = messageId}
    IN  Ids(children) \cup
        UNION {Descendants(rows \ children, c.id) : c \in children}

\* the Delete button (line 237), confirmed: deleteMessageRecursive(messageId)
\* runs up to its first await.  (A declined confirm returns at line 92.)
DeleteMessage(m) ==
    /\ Mounted
    /\ m \in OnScreen
    /\ FreeDel # {}
    /\ LET d == CHOOSE x \in FreeDel : \A y \in FreeDel : x <= y
       IN  del' = [del EXCEPT ![d] = [st |-> "running", root |-> m.id,
                                      stack |-> <<Frame(m.id)>>,
                                      sub |-> Descendants(store, m.id),
                                      quiet |-> TRUE]]
    /\ returned' = FALSE
    /\ UNCHANGED <<store, nextId, chan, notifs, messages, input, selectedMessage,
                   errorMessage, fetches, send, pickedBy, hist,
                   branchesVisible>>

\* the frames after the loop of the top frame moves on to `child`
\* (lines 117-118): the recursive call runs up to its select
Recurse(stack, child) ==
    Append(SetTop(stack, [Top(stack) EXCEPT !.todo = @ \ {child}]), Frame(child))

\* the select of the top frame resolves without error (lines 108-120)
SelectOk(d) ==
    /\ Running(d)
    /\ ~Top(del[d].stack).sel
    /\ LET stack == del[d].stack
           childMessages == SelectChildren(store, Top(stack).id)
           selected == SetTop(stack, [Top(stack) EXCEPT !.sel = TRUE,
                                                        !.todo = childMessages])
       IN  IF childMessages = {}
           THEN del' = [del EXCEPT ![d].stack = selected]
           ELSE \E child \in childMessages :
                    del' = [del EXCEPT ![d].stack = Recurse(selected, child)]
    /\ returned' = FALSE
    /\ UNCHANGED <<store, nextId, chan, notifs, messages, input, selectedMessage,
                   errorMessage, fetches, send, pickedBy, hist,
                   branchesVisible>>

\* the delete of the top frame resolves without error (line 123): the frame
\* returns; its caller's loop goes on, or deleteMessage calls fetchMessages
DeleteOk(d) ==
    /\ Running(d)
    /\ Top(del[d].stack).sel
    /\ CanNotify
    /\ LET stack == del[d].stack
           messageId == Top(stack).id
           rest == Pop(stack)
           calls == IF messageId \in Ids(store) THEN Disturbed(del, d) ELSE del
       IN  /\ store' = DeleteRow(store, messageId)
           /\ notifs' = Notify(messageId \in Ids(store))
           /\ IF rest = <<>>
              THEN /\ CanFetch
                   /\ del' = [calls EXCEPT ![d] = Returned(del[d], "done")]
                   /\ fetches' = StartFetch(fetches)
              ELSE /\ IF Top(rest).todo = {}
                      THEN del' = [calls EXCEPT ![d].stack = rest]
                      ELSE \E child \in Top(rest).todo :
                               del' = [calls EXCEPT ![d].stack = Recurse(rest, child)]
                   /\ UNCHANGED fetches
    /\ returned' = FALSE
    /\ UNCHANGED <<nextId, chan, messages, input, selectedMessage,
                   errorMessage, send, pickedBy, hist,
                   branchesVisible>>

\* a store call of the cascade resolves with an error: it is thrown through
\* every frame and caught by deleteMessage (lines 100-103)
DeleteFail(d) ==
    /\ Running(d)
    /\ del' = [del EXCEPT ![d] = Returned(del[d], "failed")]
    /\ errorMessage' = deleteError
    /\ returned' = FALSE
    /\ UNCHANGED <<store, nextId, chan, notifs, messages, input, selectedMessage,
                   fetches, send, pickedBy, hist,
                   branchesVisible>>

\* no call and no change event is in flight
Idle ==
    /\ notifs = 0
    /\ fetches = EmptyBag
    /\ send.st # "sent"
    /\ \A d \in DelSlots : ~Running(d)

\* no deleteMessage call has been made yet
FirstCascade == \A d \in DelSlots : del[d] = noCall

Next ==
    \/ Mount
    \/ Subscribed
    \/ OnChange
    \/ Unmount
    \/ \E f \in InFlight : FetchRead(f)
    \/ \E f \in InFlight : FetchOk(f)
    \/ \E f \in InFlight : FetchFail(f)
    \/ \E t \in Texts : SetInput(t)
    \/ \E m \in OnScreen : ClickEdit(m)
    \/ \E m \in OnScreen : ClickBranchReply(m)
    \/ HandleCancel
    \/ SendMessage
    \/ SendOk
    \/ SendFail
    \/ \E m \in OnScreen : DeleteMessage(m)
    \/ \E d \in DelSlots : SelectOk(d)
    \/ \E d \in DelSlots : DeleteOk(d)
    \/ \E d \in DelSlots : DeleteFail(d)
    \/ \E m \in Shown : ToggleBranchesVisibility(m)

Spec == Init /\ [][Next]_vars

(***************************************************************************)
(* The input box: the snapshot is fetched once, and the user types, picks  *)
(* messages with Edit and Branch Reply, and sends.                         *)
(***************************************************************************)
NextSend ==
    \/ Mount
    \/ \E f \in InFlight : FetchRead(f)
    \/ \E f \in InFlight : FetchOk(f)
    \/ \E t \in Texts : SetInput(t)
    \/ \E m \in OnScreen : ClickEdit(m)
    \/ \E m \in OnScreen : ClickBranchReply(m)
    \/ HandleCancel
    \/ SendMessage
    \/ SendOk
    \/ SendFail

SpecSend == Init /\ [][NextSend]_vars

(***************************************************************************)
(* The reconciliation loop, with the channel subscribed from the start:    *)
(* the user sends new messages, and every change of the table is followed  *)
(* by a refetch.                                                           *)
(***************************************************************************)
NextFresh ==
    \/ MountSubscribed
    \/ OnChange
    \/ \E f \in InFlight : FetchRead(f)
    \/ \E f \in InFlight : FetchOk(f)
    \/ \E f \in InFlight : FetchFail(f)
    \/ \E t \in Texts : SetInput(t)
    \/ SendMessage
    \/ SendOk
    \/ SendFail

SpecFresh == Init /\ [][NextFresh]_vars

(***************************************************************************)
(* The component with its input box left alone: the reconciliation loop    *)
(* and deleteMessage.                                                      *)
(***************************************************************************)
NextDelete ==
    \/ Mount
    \/ Subscribed
    \/ OnChange
    \/ Unmount
    \/ \E f \in InFlight : FetchRead(f)
    \/ \E f \in InFlight : FetchOk(f)
    \/ \E f \in InFlight : FetchFail(f)
    \/ \E m \in OnScreen : DeleteMessage(m)
    \/ \E d \in DelSlots : SelectOk(d)
    \/ \E d \in DelSlots : DeleteOk(d)
    \/ \E d \in DelSlots : DeleteFail(d)

SpecDelete == Init /\ [][NextDelete]_vars

(***************************************************************************)
(* Cascading deletes racing with sends: the snapshot is fetched once, and  *)
(* the user edits the messages on screen and deletes one of them.          *)
(***************************************************************************)
NextCascade ==
    \/ Mount
    \/ \E f \in InFlight : FetchRead(f)
    \/ \E f \in InFlight : FetchOk(f)
    \/ \E m \in OnScreen : ClickEdit(m)
    \/ SendMessage
    \/ SendOk
    \/ SendFail
    \/ FirstCascade /\ \E m \in OnScreen : DeleteMessage(m)
    \/ \E d \in DelSlots : SelectOk(d)
    \/ \E d \in DelSlots : DeleteOk(d)
    \/ \E d \in DelSlots : DeleteFail(d)

SpecCascade == Init /\ [][NextCascade]_vars

(***************************************************************************)
(* Sends of every kind racing with cascading deletes, no store call        *)
(* failing: the snapshot is fetched at mount and after each delete, and    *)
(* the user types a text, creates, edits and replies to the messages on    *)
(* screen and deletes one of them.                                         *)
(***************************************************************************)
NextForest ==
    \/ Mount
    \/ \E f \in InFlight : FetchRead(f)
    \/ \E f \in InFlight : FetchOk(f)
    \/ SetInput(<<"a">>)
    \/ \E m \in OnScreen : ClickEdit(m)
    \/ \E m \in OnScreen : ClickBranchReply(m)
    \/ SendMessage
    \/ SendOk
    \/ FirstCascade /\ \E m \in OnScreen : DeleteMessage(m)
    \/ \E d \in DelSlots : SelectOk(d)
    \/ \E d \in DelSlots : DeleteOk(d)

SpecForest == Init /\ [][NextForest]_vars

(***************************************************************************)
(* Cascading deletes racing with each other, no store call failing: the    *)
(* user deletes messages on screen while earlier cascades still run.       *)
(* Every store call is answered in the end.                                *)
(***************************************************************************)
NextRace ==
    \/ Mount
    \/ \E f \in InFlight : FetchRead(f)
    \/ \E f \in InFlight : FetchOk(f)
    \/ \E m \in OnScreen : DeleteMessage(m)
    \/ \E d \in DelSlots : SelectOk(d)
    \/ \E d \in DelSlots : DeleteOk(d)

\* the store answers a call in flight
Answers ==
    \/ \E f \in InFlight : FetchRead(f)
    \/ \E f \in InFlight : FetchOk(f)
    \/ \E d \in DelSlots : SelectOk(d)
    \/ \E d \in DelSlots : DeleteOk(d)

SpecRace == Init /\ [][NextRace]_vars /\ WF_vars(Answers)

(***************************************************************************)
(* The writers of the snapshot: the snapshot is fetched at mount and after *)
(* a delete, and a fetch may fail; the user edits the messages on screen,  *)
(* deletes one of them and toggles their branches, one operation after the *)
(* other.                                                                  *)
(***************************************************************************)
NextSnapshot ==
    \/ Mount
    \/ \E f \in InFlight : FetchRead(f)
    \/ \E f \in InFlight : FetchOk(f)
    \/ \E f \in InFlight : FetchFail(f)
    \/ Idle /\ \E m \in OnScreen : ClickEdit(m)
    \/ Idle /\ SendMessage
    \/ SendOk
    \/ Idle /\ FirstCascade /\ \E m \in OnScreen : DeleteMessage(m)
    \/ \E d \in DelSlots : SelectOk(d)
    \/ \E d \in DelSlots : DeleteOk(d)
    \/ Idle /\ \E m \in Shown : ToggleBranchesVisibility(m)

SpecSnapshot == Init /\ [][NextSnapshot]_vars

(***************************************************************************)
(* The view: renderMessages on the snapshots and visibility maps the       *)
(* component can hold.  The table is one of the forests on rows            *)
(* 1..ViewRows, with any versions up to ViewVersions (equal versions under *)
(* one parent_id included), with or without row 1 (without it, its         *)
(* children are orphans); the snapshot is fetched once and the user        *)
(* toggles the branches of the messages on screen.                         *)
(***************************************************************************)
ViewRows == 3
ViewVersions == 2

ViewParents == {ps \in [1..ViewRows -> 0..ViewRows] : \A i \in 1..ViewRows : ps[i] < i}

ViewStore(ps, vs, gone) ==
    {Message(i, <<"a">>, ps[i], vs[i], i) : i \in (1..ViewRows) \ gone}

InitView ==
    /\ \E ps \in ViewParents, vs \in [1..ViewRows -> 1..ViewVersions],
          gone \in SUBSET {1} :
            store = ViewStore(ps, vs, gone)
    /\ nextId = ViewRows + 1
    /\ hist = store
    /\ chan = "init"
    /\ notifs = 0
    /\ messages = <<>>
    /\ input = <<>>
    /\ selectedMessage = nullMessage
    /\ errorMessage = noError
    /\ fetches = EmptyBag
    /\ send = noSend
    /\ pickedBy = "none"
    /\ del = [d \in DelSlots |-> noCall]
    /\ returned = FALSE
    /\ branchesVisible = noBranches

NextView ==
    \/ Mount
    \/ \E f \in InFlight : FetchRead(f)
    \/ \E f \in InFlight : FetchOk(f)
    \/ \E m \in Shown : ToggleBranchesVisibility(m)

SpecView == InitView /\ [][NextView]_vars

(***************************************************************************)
(* A single actor on a table that starts empty: the channel is subscribed  *)
(* from the start and every change of the table is followed by a refetch.  *)
(* The user creates, edits and replies, and deletes one message, one       *)
(* operation after the other: the next one starts when the last one has    *)
(* returned and the screen shows its result.                               *)
(***************************************************************************)
InitEmpty ==
    /\ store = {}
    /\ nextId = 1
    /\ hist = store
    /\ chan = "init"
    /\ notifs = 0
    /\ messages = <<>>
    /\ input = <<>>
    /\ selectedMessage = nullMessage
    /\ errorMessage = noError
    /\ fetches = EmptyBag
    /\ send = noSend
    /\ pickedBy = "none"
    /\ del = [d \in DelSlots |-> noCall]
    /\ returned = FALSE
    /\ branchesVisible = noBranches

NextEmpty ==
    \/ MountSubscribed
    \/ OnChange
    \/ \E f \in InFlight : FetchRead(f)
    \/ \E f \in InFlight : FetchOk(f)
    \/ Idle /\ \E t \in Texts : SetInput(t)
    \/ Idle /\ \E m \in OnScreen : ClickEdit(m)
    \/ Idle /\ \E m \in OnScreen : ClickBranchReply(m)
    \/ Idle /\ SendMessage
    \/ SendOk
    \/ Idle /\ FirstCascade /\ \E m \in OnScreen : DeleteMessage(m)
    \/ \E d \in DelSlots : SelectOk(d)
    \/ \E d \in DelSlots : DeleteOk(d)

SpecEmpty == InitEmpty /\ [][NextEmpty]_vars

(***************************************************************************)
(* Properties of sendMessage, checked under SpecSend                       *)
(***************************************************************************)
\* the step on which the insert of the sendMessage call in flight succeeds
\* resp. fails
SendSucceeds == send.st = "sent" /\ send'.st = "ok"

SendFails == send.st = "sent" /\ send'.st = "failed"

\* C1: a message sent after Branch Reply on a message E is inserted as
\* exactly one new row, with parent_id = E.id and version = 1.
C1_BranchReplyStartsLineage ==
    [][(SendSucceeds /\ send.how = "branch")
         => \E r \in store' :
                /\ r \notin store
                /\ store' = store \cup {r}
                /\ r.parent_id = send.parentMessage.id
                /\ r.version = 1]_vars

\* C2: a message sent after Edit on a message E is inserted as exactly one
\* new row, with a new id, parent_id = E.parent_id, version = E.version + 1
\* and the text as content; every row of the table stays as it was.
C2_EditAppendsVersion ==
    [][(SendSucceeds /\ send.how = "edit")
         => \E r \in store' :
                /\ r.id \notin Ids(hist)
                /\ store' = store \cup {r}
                /\ r.parent_id = send.parentMessage.parent_id
                /\ r.version = send.parentMessage.version + 1
                /\ r.content = send.text]_vars

\* an edit of a row that is still in the table has been inserted next to it
C2_Witness ==
    /\ send.st = "ok"
    /\ send.how = "edit"
    /\ \E r \in store, e \in store :
          /\ r.id = nextId - 1
          /\ e.id < r.id
          /\ r.parent_id = e.parent_id
          /\ r.version = e.version + 1

WhiteSpaceOnly(text) == \A i \in 1..Len(text) : text[i] = " "

\* C9: with an empty or white-space-only input a sendMessage call sends no
\* insert, and the call changes neither the table nor the snapshot, the
\* input, the selection or the error.
C9_BlankInputNoOp ==
    [][/\ (WhiteSpaceOnly(input) /\ send'.st = "sent") => send' = send
       /\ returned' => UNCHANGED <<store, nextId, messages, input, selectedMessage,
                                  errorMessage, send, fetches>>]_vars

\* sendMessage has returned early on a white-space input, with a message
\* selected
C9_Witness ==
    /\ returned
    /\ input = <<" ">>
    /\ selectedMessage # nullMessage

\* C10: when the insert of sendMessage fails, the table, the snapshot, the
\* input and the selection stay as they are, the error is set, and the call
\* returns.
C10_InsertFailureKeepsState ==
    [][SendFails
         => /\ store' = store
            /\ messages' = messages
            /\ input' = input
            /\ selectedMessage' = selectedMessage
            /\ errorMessage' # noError]_vars

\* a failed sendMessage call has left the text and the selection in place
C10_Witness ==
    /\ send.st = "failed"
    /\ errorMessage = sendError
    /\ input = <<"a">>
    /\ selectedMessage # nullMessage
    /\ Ids(store) = Ids(hist)

(***************************************************************************)
(* Properties of the reconciliation loop, checked under SpecFresh          *)
(***************************************************************************)
\* the step on which a fetchMessages call starts, resolves with an error,
\* resolves with data
FetchStarts == BagCardinality(fetches') > BagCardinality(fetches)

FetchFails ==
    /\ BagCardinality(fetches') < BagCardinality(fetches)
    /\ CopiesIn(Sent, fetches') < CopiesIn(Sent, fetches)

FetchSucceeds ==
    /\ BagCardinality(fetches') < BagCardinality(fetches)
    /\ CopiesIn(Sent, fetches') = CopiesIn(Sent, fetches)

\* the step on which a deleteMessage call returns after its cascade
DeleteSucceeds == \E d \in DelSlots : Running(d) /\ del'[d].st = "done"

\* nothing is in flight between the component and the store, the channel is
\* subscribed and no call has failed
Settled ==
    /\ chan = "subscribed"
    /\ notifs = 0
    /\ fetches = EmptyBag
    /\ send.st # "sent"
    /\ \A d \in DelSlots : ~Running(d)
    /\ errorMessage = noError

\* C5: once nothing is in flight any more and every fetch has resolved
\* without error, the snapshot is the table as it is now.
C5_SnapshotFresh == Settled => messages = SelectAll(store)

\* C6: when a fetchMessages call resolves with an error, the snapshot stays
\* as it was and the error is set.
C6_FetchFailureKeepsSnapshot ==
    [][FetchFails => (messages' = messages /\ errorMessage' # noError)]_vars

\* a refetch has failed and the snapshot on screen is the one of before the
\* change of the table
C6_Witness ==
    /\ errorMessage = fetchError
    /\ fetches = EmptyBag
    /\ notifs = 0
    /\ messages # <<>>
    /\ messages # SelectAll(store)

\* C7: once the error is set, the next fetch that resolves with data and the
\* next send or delete that succeeds set it back to null.
C7_ErrorResetBySuccess ==
    [][(errorMessage # noError /\ (FetchSucceeds \/ SendSucceeds \/ DeleteSucceeds))
         => errorMessage' = noError]_vars

(***************************************************************************)
(* Teardown, checked under SpecDelete                                      *)
(***************************************************************************)
\* C8: after the cleanup of the effect no fetchMessages call starts and the
\* snapshot is not replaced, whatever was in flight at the cleanup.
C8_NoRefetchAfterTeardown ==
    [][chan = "removed" => (~FetchStarts /\ messages' = messages)]_vars

(***************************************************************************)
(* The cascading delete, checked under SpecCascade                         *)
(***************************************************************************)
\* row r hangs under one of the ids D: its parent_id chain through `rows`
\* reaches D
RECURSIVE Hangs(_, _, _)
Hangs(rows, r, D) ==
    \/ r.parent_id \in D
    \/ \E p \in rows : p.id = r.parent_id /\ Hangs(rows \ {p}, p, D)

\* the root of call d and its descendants in the table when the call was made
Doomed(d) == {del[d].root} \cup del[d].sub

\* the table after call d holds neither its root, nor a descendant of the
\* root, nor a row that hangs under one of them
SubtreeGone(d) ==
    \A r \in store' : r.id \notin Doomed(d) /\ ~Hangs(store', r, Doomed(d))

C4_CascadeWithinSubtree ==
    [][(store' # store /\ nextId' = nextId)
         => /\ store' \subseteq store
            /\ \A r \in store \ store' :
                  \E d \in DelSlots :
                      /\ Running(d)
                      /\ (r.id = del[d].root \/ Hangs(hist, r, {del[d].root}))]_vars

\* a call has removed a message and its child; another version of the
\* message, with the same parent_id, is still in the table
C4_Witness ==
    \E d \in DelSlots :
        /\ del[d].st = "done"
        /\ \E n \in hist, c \in hist, v \in store :
              /\ n.id = del[d].root
              /\ c.parent_id = n.id
              /\ {n, c} \cap store = {}
              /\ v.parent_id = n.parent_id

(***************************************************************************)
(* The view, checked under SpecView                                        *)
(***************************************************************************)
\* what renderMessages() emits in the current state
View == RenderMessages(messages, branchesVisible)

\* the positions of the rendered sequence out at which message m is emitted
Positions(out, m) == {k \in 1..Len(out) : out[k].message = m}

\* the map holds the value true for id
Expanded(id) == \E i \in DOMAIN branchesVisible : i = id /\ branchesVisible[i] = TRUE

\* the number of ancestors of m in the snapshot
RECURSIVE Ancestors(_, _)
Ancestors(rows, m) ==
    IF m.parent_id = null \/ \A p \in rows : p.id # m.parent_id THEN 0
    ELSE LET p == CHOOSE q \in rows : q.id = m.parent_id
         IN  1 + Ancestors(rows \ {p}, p)

\* C11: a message of the snapshot is in the rendered sequence if and only if
\* its parent_id is null or its parent is in the sequence and has the value
\* true in the visibility map (no entry counts as collapsed); every element
\* is drawn at the level that is the number of its ancestors, and no message
\* is emitted twice.
C11_ViewVisibilityRule ==
    LET out == View
        rows == Range(messages)
    IN  /\ \A k \in 1..Len(out) : out[k].message \in rows
        /\ \A m \in rows :
              /\ Cardinality(Positions(out, m)) <= 1
              /\ Positions(out, m) # {}
                    <=> \/ m.parent_id = null
                        \/ \E p \in rows :
                              /\ p.id = m.parent_id
                              /\ Positions(out, p) # {}
                              /\ Expanded(p.id)
              /\ \A k \in Positions(out, m) : out[k].level = Ancestors(rows, m)

\* a child is on screen at level 1 under its expanded parent, while its own
\* child is not: the branches of its parent were toggled back to false
C11_Witness ==
    LET out == View
    IN  /\ \E k \in 1..Len(out) : out[k].level = 1
        /\ \E m \in Range(messages), p \in Range(messages) :
              /\ p.id = m.parent_id
              /\ Positions(out, p) # {}
              /\ Positions(out, m) = {}
              /\ p.id \in DOMAIN branchesVisible

\* the snapshot rows with parent_id = parentId
Siblings(parentId) == {m \in Range(messages) : m.parent_id = parentId}

\* C12: for every parent_id, null included, renderMessages lists all the
\* snapshot rows with that parent_id, each once, by descending version,
\* rows of equal version by descending created_at.
C12_SiblingOrdering ==
    \A parentId \in {null} \cup Ids(Range(messages)) :
        LET listed == SortedMessages(messages, parentId)
        IN  /\ Range(listed) = Siblings(parentId)
            /\ Len(listed) = Cardinality(Siblings(parentId))
            /\ \A i \in 1..Len(listed), j \in 1..Len(listed) :
                  i < j => \/ listed[i].version > listed[j].version
                           \/ /\ listed[i].version = listed[j].version
                              /\ listed[i].created_at > listed[j].created_at

\* three rows under one parent_id are on screen, two of them of equal
\* version and one of another version
C12_Witness ==
    \E a \in Shown, b \in Shown, c \in Shown :
        /\ a.parent_id = b.parent_id /\ b.parent_id = c.parent_id
        /\ a.id # b.id
        /\ a.version = b.version
        /\ c.version # a.version

\* C16: toggling the branches of any id twice gives the rendered sequence
\* of before the two toggles, also for an id without an entry in the map.
C16_ToggleTwiceSameView ==
    LET out == View
    IN  \A id \in 1..MaxId :
            RenderMessages(messages, Toggled(Toggled(branchesVisible, id), id)) = out

\* the branches of a message with a child were toggled twice: its entry is
\* false and the child is off screen; another message on screen has no
\* entry at all
C16_Witness ==
    /\ \E m \in Shown :
          /\ m.id \in DOMAIN branchesVisible
          /\ ~branchesVisible[m.id]
          /\ \E c \in Range(messages) : c.parent_id = m.id
    /\ \E m \in Shown : m.id \notin DOMAIN branchesVisible

(***************************************************************************)
(* Lineages on a table that starts empty, checked under SpecEmpty          *)
(***************************************************************************)
\* C13: after any sequence of create, edit and branch-reply operations of
\* one actor on a table that was empty, no two rows with the same parent_id
\* have the same version.
C13_VersionUniquePerLineage ==
    \A a \in store, b \in store :
        (a.parent_id = b.parent_id /\ a.version = b.version) => a = b

C14_ForestAcyclic == \A r \in store : ~Hangs(store, r, {r.id})

\* a row inserted by an edit or a reply hangs under another row, after a
\* cascade has removed rows
C14_Witness ==
    /\ send.st = "ok"
    /\ \E d \in DelSlots : del[d].st = "done"
    /\ Ids(store) # Ids(hist)
    /\ \E r \in store, p \in store : r.id = nextId - 1 /\ r.parent_id = p.id

\* the rows that were removed from the table
Removed == hist \ store

\* no row of the table has the parent_id of a removed row
NoDangling(rows) == \A r \in rows : r.parent_id \notin Ids(Removed)

C19_NoOrphans ==
    (/\ send.st \in {"none", "ok"}
     /\ \A d \in DelSlots : del[d].st \in {"none", "done"})
      => \A r \in store : r.parent_id = null \/ r.parent_id \in Ids(store)

(***************************************************************************)
(* Cascades racing with each other, checked under SpecRace                 *)
(***************************************************************************)
\* the rows the table has held that are messageId or hang under it
Subtree(messageId) ==
    {r \in hist : r.id = messageId \/ Hangs(hist, r, {messageId})}

CascadeDeletes == store' # store /\ nextId' = nextId

\* C18: a send, a step of a cascading delete and a toggle of the branches
\* leave the snapshot as it is; the snapshot changes only on the step on
\* which a fetchMessages call resolves with data, and then it is the
\* fetched collection, with nothing of the snapshot of before kept.
C18_SingleWriterSnapshot ==
    [][/\ (SendSucceeds \/ SendFails \/ CascadeDeletes \/ DeleteSucceeds
              \/ branchesVisible' # branchesVisible)
            => messages' = messages
       /\ messages' # messages
            => \E f \in InFlight :
                   /\ f.st = "data"
                   /\ fetches' = fetches (-) One(f)
                   /\ messages' = f.data]_vars

\* after an edit, a cascade and the refetch that follows it, the snapshot
\* is the table, without the removed rows that the snapshot of before held;
\* branches are expanded
C18_Witness ==
    /\ send.st = "ok"
    /\ \E d \in DelSlots : del[d].st = "done"
    /\ fetches = EmptyBag
    /\ messages = SelectAll(store)
    /\ Removed # {}
    /\ \E i \in DOMAIN branchesVisible : branchesVisible[i]

====
